---------------------------- MODULE Spec2Model ----------------------------
(***************************************************************************)
(* Fraud-risk scoring pipeline (UPI transactions and call-detail records): *)
(* feature reconstruction, ensemble loading, scoring, risk bucketing and   *)
(* reason generation, modelled from app/utils/*.py and streamlit_app.py.   *)
(*                                                                         *)
(* Numbers.  A probability is an exact fraction [n, d] (n/d, d > 0); the   *)
(* classifier outputs and blends are counted in millionths (d = Micro).    *)
(* A table cell is a record [k, v, d, s]: a finite number v/Milli          *)
(* (k = "num"), the quotient v/(d/Milli + 1e-9) (k = "ratio"), NaN, +-inf  *)
(* (k = "inf", v = 1 or -1) or a text s (k = "txt").                       *)
(***************************************************************************)
EXTENDS Integers, Sequences, FiniteSets, TLC

VARIABLES
    pc,             \* "called": a call is in flight; "returned"; "idle"
    op,             \* the operation called
    args,           \* its arguments
    ret,            \* its outcome: [status, value] or [status, error, message]
    thresholdFile,  \* content of app/outputs/last_thresholds.yaml
    disk,           \* files on disk: [exists, model_paths, feature_order]
    loaded          \* artifacts deserialised by the loader so far

vars == <<pc, op, args, ret, thresholdFile, disk, loaded>>

(***************************************************************************)
(* Bounds of the model                                                     *)
(***************************************************************************)
MaxBatch == 2       \* longest probability array handed to the bucketer
MaxProbs == 3       \* longest probability array handed to the normaliser
MaxCells == 3       \* most cells (columns x rows) of a raw table
MaxScoreRows == 2   \* most rows of a batch handed to the scorer
MaxFields == 5      \* most fields present in a row handed to the reason generator
MaxFlowCells == 2   \* most cells of a raw table uploaded to the pipeline

Micro == 10^6
Milli == 10^3

Pending == [status |-> "pending"]
Ok(v) == [status |-> "ok", value |-> v]
Raise(e, m) == [status |-> "raise", error |-> e, message |-> m]

Frac(n, d) == [n |-> n, d |-> d]
\* fractions of one denominator are compared by their numerators
FracLt(p, q) == IF p.d = q.d THEN p.n < q.n ELSE p.n * q.d < q.n * p.d
FracGe(p, q) == ~FracLt(p, q)
FracEq(p, q) == ~FracLt(p, q) /\ ~FracLt(q, p)

Range(s) == {s[i] : i \in 1..Len(s)}
SeqsUpTo(S, n) == UNION {[1..k -> S] : k \in 0..n}

NoDisk == [exists |-> {}, model_paths |-> <<>>, feature_order |-> <<>>]

(***************************************************************************)
(* Risk bucketer: prediction.py apply_risk_buckets                         *)
(***************************************************************************)
\* yaml content: a mapping from mode to {medium, high}; <<>> is "no file"
NoRecord == <<>>

UpiHigh == Frac(97, 100)
UpiMedium == Frac(95, 100)
CdrHigh == Frac(70, 100)
CdrMedium == Frac(30, 100)

\* a plausible slip: any unrecognised mode falls back to the UPI thresholds
ThresholdsDefaultUpi(mode) ==
    CASE mode = "cdr" -> [known |-> TRUE, medium |-> CdrMedium, high |-> CdrHigh]
      [] OTHER -> [known |-> TRUE, medium |-> UpiMedium, high |-> UpiHigh]

\* the if / elif / else on mode (else: raise ValueError)
Thresholds(mode) ==
    CASE mode = "upi" -> [known |-> TRUE, medium |-> UpiMedium, high |-> UpiHigh]
      [] mode = "cdr" -> [known |-> TRUE, medium |-> CdrMedium, high |-> CdrHigh]
      [] OTHER -> [known |-> FALSE, medium |-> Frac(0, 1), high |-> Frac(0, 1)]

\* a plausible slip: strict comparisons, a value on a cut-off gets the lower tier
categorizeStrict(p, medium_thresh, high_thresh) ==
    IF FracLt(high_thresh, p) THEN "High"
    ELSE IF FracLt(medium_thresh, p) THEN "Medium"
    ELSE "Low"

categorize(p, medium_thresh, high_thresh) ==
    IF FracGe(p, high_thresh) THEN "High"
    ELSE IF FracGe(p, medium_thresh) THEN "Medium"
    ELSE "Low"

risk_buckets(probs, mode) ==
    [i \in 1..Len(probs) |->
        categorize(probs[i], Thresholds(mode).medium, Thresholds(mode).high)]

\* a plausible slip: the file is opened for update, new keys join the old ones
AppendThresholds(old, mode) ==
    [m \in DOMAIN old \cup {mode} |->
        IF m = mode
        THEN [medium |-> Thresholds(mode).medium, high |-> Thresholds(mode).high]
        ELSE old[m]]

\* open(..., "w") + yaml.dump({mode: {"medium": ..., "high": ...}})
DumpThresholds(old, mode) ==
    [m \in {mode} |->
        [medium |-> Thresholds(mode).medium, high |-> Thresholds(mode).high]]

\* probabilities handed to the bucketer: the cut-offs, their neighbours, the ends
BucketProbs ==
    {Frac(n, Micro) : n \in {0, 299999, 300000, 699999, 700000, 949999,
                             950000, 960000, 969999, 970000, Micro}}
        \cup {Frac(1, 3), Frac(0, 1), Frac(1, 1)}
BucketModes == {"upi", "cdr", "sms", "UPI", ""}

ApplyRiskBuckets ==
    /\ pc = "idle"
    /\ \E probs \in SeqsUpTo(BucketProbs, MaxBatch), mode \in BucketModes :
        /\ op' = "apply_risk_buckets"
        /\ args' = [probabilities |-> probs, mode |-> mode]
        /\ IF Thresholds(mode).known
           THEN /\ ret' = Ok(risk_buckets(probs, mode))
                /\ thresholdFile' = DumpThresholds(thresholdFile, mode)
           ELSE /\ ret' = Raise("ValueError", <<mode>>)
                /\ UNCHANGED thresholdFile
    /\ pc' = "returned"
    /\ UNCHANGED <<disk, loaded>>

\* the caller takes the outcome; the next call starts from the persisted file
Return ==
    /\ pc = "returned"
    /\ pc' = "idle"
    /\ op' = "none"
    /\ args' = <<>>
    /\ ret' = Pending
    /\ UNCHANGED <<thresholdFile, disk, loaded>>

InitBuckets ==
    /\ pc = "idle"
    /\ op = "none"
    /\ args = <<>>
    /\ ret = Pending
    /\ thresholdFile = NoRecord
    /\ disk = NoDisk
    /\ loaded = {}

NextBuckets == ApplyRiskBuckets \/ Return
SpecBuckets == InitBuckets /\ [][NextBuckets]_vars


(***************************************************************************)
(* Claims about the risk bucketer                                          *)
(***************************************************************************)
TierRank(t) == CASE t = "Low" -> 0 [] t = "Medium" -> 1 [] t = "High" -> 2

\* the cut-offs as the specification states them, in hundredths
StatedMedium(mode) == IF mode = "upi" THEN 95 ELSE 30
StatedHigh(mode) == IF mode = "upi" THEN 97 ELSE 70
Hundredths(p) == p.n * 100        \* p >= c/100  <=>  p.n * 100 >= c * p.d
StatedTier(p, mode) ==
    IF Hundredths(p) >= StatedHigh(mode) * p.d THEN "High"
    ELSE IF Hundredths(p) >= StatedMedium(mode) * p.d THEN "Medium"
    ELSE "Low"

BucketsReturned == pc = "returned" /\ op = "apply_risk_buckets" /\ ret.status = "ok"

\* C1: apply_risk_buckets returns one tier per probability, in input order:
\* High iff p >= high_cut, Medium iff medium_cut <= p < high_cut, Low iff
\* p < medium_cut, with cut-offs (0.95, 0.97) for upi and (0.30, 0.70) for cdr;
\* a value on a cut-off gets the higher tier, and p1 < p2 implies
\* bucket(p1) <= bucket(p2).
C1_BucketsFollowCutoffs ==
    BucketsReturned =>
        LET probs == args.probabilities
            mode == args.mode
            out == ret.value
        IN  /\ mode \in {"upi", "cdr"}
            /\ Len(out) = Len(probs)
            /\ \A i \in 1..Len(probs) :
                /\ out[i] \in {"Low", "Medium", "High"}
                /\ out[i] = "High" <=>
                       Hundredths(probs[i]) >= StatedHigh(mode) * probs[i].d
                /\ out[i] = "Medium" <=>
                       /\ Hundredths(probs[i]) >= StatedMedium(mode) * probs[i].d
                       /\ Hundredths(probs[i]) < StatedHigh(mode) * probs[i].d
                /\ out[i] = "Low" <=>
                       Hundredths(probs[i]) < StatedMedium(mode) * probs[i].d
            /\ \A i, j \in 1..Len(probs) :
                FracLt(probs[i], probs[j]) => TierRank(out[i]) <= TierRank(out[j])
            /\ mode = "upi" =>
                \A i \in 1..Len(probs) :
                    /\ probs[i] = Frac(960000, Micro) => out[i] = "Medium"
                    /\ probs[i] = Frac(970000, Micro) => out[i] = "High"
                    /\ probs[i] = Frac(949999, Micro) => out[i] = "Low"

\* a UPI batch holding a value just under the medium cut-off and one on the
\* high cut-off has been bucketed
C1_Witness ==
    /\ BucketsReturned
    /\ args.mode = "upi"
    /\ args.probabilities = <<Frac(949999, Micro), Frac(970000, Micro)>>
    /\ ret.value = <<"Low", "High">>

\* C8: for every domain key other than 'upi' and 'cdr', and any probability
\* array (also an empty one), apply_risk_buckets fails with a domain error,
\* returns no labels and leaves the persisted threshold record unchanged.
C8_UnknownModeFails ==
    [][(op' = "apply_risk_buckets" /\ args'.mode \notin {"upi", "cdr"}) =>
          /\ ret'.status = "raise"
          /\ ret'.error = "ValueError"
          /\ thresholdFile' = thresholdFile]_vars

\* an unknown key was refused on an empty array after an earlier run wrote
\* the record
C8_Witness ==
    /\ pc = "returned"
    /\ op = "apply_risk_buckets"
    /\ args.mode = "sms"
    /\ args.probabilities = <<>>
    /\ ret.status = "raise"
    /\ thresholdFile # NoRecord

StatedRecord(mode) ==
    [m \in {mode} |->
        [medium |-> Frac(StatedMedium(mode), 100),
         high |-> Frac(StatedHigh(mode), 100)]]

\* C9: the diagnostic record holds the pair (medium_cut, high_cut) of the most
\* recent successful invocation, for that invocation's domain, with
\* medium_cut < high_cut, both in [0,1]: every successful invocation (also on
\* an empty array) overwrites the prior content, every other step leaves it
\* alone, and the labels are a function of the probabilities and the domain
\* alone, whatever the record holds.
C9_RecordIsLastPair ==
    [][/\ (op' = "apply_risk_buckets" /\ ret'.status = "ok") =>
            /\ thresholdFile' = StatedRecord(args'.mode)
            /\ LET t == thresholdFile'[args'.mode]
               IN  /\ FracLt(t.medium, t.high)
                   /\ FracGe(t.medium, Frac(0, 1))
                   /\ FracGe(Frac(1, 1), t.high)
            /\ ret'.value = [i \in 1..Len(args'.probabilities) |->
                                StatedTier(args'.probabilities[i], args'.mode)]
       /\ ~(op' = "apply_risk_buckets" /\ ret'.status = "ok") =>
            thresholdFile' = thresholdFile]_vars

\* a CDR run on an empty array has replaced what an earlier run left
C9_Witness ==
    /\ BucketsReturned
    /\ args.mode = "cdr"
    /\ args.probabilities = <<>>
    /\ thresholdFile = StatedRecord("cdr")


(***************************************************************************)
(* Table cells and the pandas / numpy operations the reconstructors use    *)
(***************************************************************************)
Num(v) == [k |-> "num", v |-> v, d |-> 0, s |-> ""]
NaN == [k |-> "nan", v |-> 0, d |-> 0, s |-> ""]
Inf(sgn) == [k |-> "inf", v |-> sgn, d |-> 0, s |-> ""]
Txt(s) == [k |-> "txt", v |-> 0, d |-> 0, s |-> s]
Ratio(n, dd) == [k |-> "ratio", v |-> n, d |-> dd, s |-> ""]
\* the result of an operation that raises TypeError on this operand
Err == [k |-> "err", v |-> 0, d |-> 0, s |-> ""]

One == Num(Milli)
Zero == Num(0)
IsFinite(x) == x.k \in {"num", "ratio"}
Bool01(b) == IF b THEN One ELSE Zero     \* .astype(int) of a boolean

\* a table: column labels in order (labels may repeat) and rows of cells
Table(cols, rows) == [cols |-> cols, rows |-> rows]
NRows(df) == Len(df.rows)
HasCol(df, c) == \E i \in 1..Len(df.cols) : df.cols[i] = c
Positions(df, c) == {i \in 1..Len(df.cols) : df.cols[i] = c}
FirstPos(df, c) == CHOOSE i \in Positions(df, c) : \A j \in Positions(df, c) : i <= j
Col(df, c) == [r \in 1..NRows(df) |-> df.rows[r][FirstPos(df, c)]]
Const(df, x) == [r \in 1..NRows(df) |-> x]

\* df[c] = series: replaces the column(s) labelled c, or appends a new one
SetCol(df, c, series) ==
    IF HasCol(df, c)
    THEN Table(df.cols,
               [r \in 1..NRows(df) |->
                   [i \in 1..Len(df.cols) |->
                       IF df.cols[i] = c THEN series[r] ELSE df.rows[r][i]]])
    ELSE Table(Append(df.cols, c),
               [r \in 1..NRows(df) |-> Append(df.rows[r], series[r])])

\* the positions of cols, in order, whose label is in keep
KeepIdx(cols, keep) ==
    SelectSeq([i \in 1..Len(cols) |-> i], LAMBDA i : cols[i] \in keep)

Take(df, idx) ==
    Table([j \in 1..Len(idx) |-> df.cols[idx[j]]],
          [r \in 1..NRows(df) |-> [j \in 1..Len(idx) |-> df.rows[r][idx[j]]]])

\* df.drop(columns=names, errors="ignore")
DropCols(df, names) == Take(df, KeepIdx(df.cols, Range(df.cols) \ names))

\* df[names] on possibly repeated labels: for each name in turn, every
\* position carrying it (pandas' non-unique indexer)
SelectIdx(cols, names) ==
    LET n == Len(cols)
        pairs == [k \in 1..(Len(names) * n) |->
                     [j |-> ((k - 1) \div n) + 1, i |-> ((k - 1) % n) + 1]]
        hits == SelectSeq(pairs, LAMBDA q : cols[q.i] = names[q.j])
    IN  [k \in 1..Len(hits) |-> hits[k].i]

\* df[names]
Select(df, names) == Take(df, SelectIdx(df.cols, names))

\* pd.concat([df, other], axis=1)
ConcatCols(df, other) ==
    Table(df.cols \o other.cols,
          [r \in 1..NRows(df) |-> df.rows[r] \o other.rows[r]])

\* for col in names: if col not in df.columns: df[col] = x
\* (names holds each label once: the absent ones are appended in order)
FillMissing(df, names, x) ==
    LET absent == SelectSeq(names, LAMBDA c : ~HasCol(df, c))
    IN  Table(df.cols \o absent,
              [r \in 1..NRows(df) |-> df.rows[r] \o [j \in 1..Len(absent) |-> x]])

AnyErr(df) ==
    \E r \in 1..NRows(df) : \E i \in 1..Len(df.cols) : df.rows[r][i].k = "err"

\* the distinct non-missing values of a column, as get_dummies sees them
\* (their order is immaterial: indicator columns are only picked by label)
RECURSIVE Levels(_, _)
Levels(series, r) ==
    IF r > Len(series) THEN <<>>
    ELSE LET rest == Levels(series, r + 1)
             x == series[r]
         IN  IF x.k = "nan" THEN rest
             ELSE <<x>> \o SelectSeq(rest, LAMBDA y : y # x)

\* str(value) for the values a categorical column holds
StrOf(x) ==
    CASE x.k = "txt" -> x.s
      [] x.k = "nan" -> "nan"
      [] x.k = "inf" -> IF x.v > 0 THEN "inf" ELSE "-inf"
      [] x = Num(0) -> "0.0"
      [] x = Num(2000) -> "2.0"
      [] x = Num(Milli) -> "1.0"

\* pd.get_dummies(series, prefix="type"): one indicator column per level
GetDummies(series) ==
    LET lv == Levels(series, 1)
    IN  Table([j \in 1..Len(lv) |-> "type_" \o StrOf(lv[j])],
              [r \in 1..Len(series) |->
                  [j \in 1..Len(lv) |-> Bool01(series[r] = lv[j])]])


(***************************************************************************)
(* Feature reconstructor (CDR): feature_engineering_cdr.py                 *)
(***************************************************************************)
numeric_cols ==
    <<"call_duration", "call_cost", "cost_per_sec", "call_hour",
      "distinct_callees_last_24h", "tower_switch_rate",
      "repeated_short_calls_last_1h">>
expected_dummies == <<"type_voip", "type_international", "type_roaming", "type_voice">>
final_cols ==
    numeric_cols \o <<"type_VoIP", "type_international", "type_roaming", "type_voice">>

\* the number a text cell spells, NaN when it spells none (errors="coerce")
ParseNumber(s) ==
    CASE s = "7" -> Num(7 * Milli)
      [] s = "inf" -> Inf(1)
      [] OTHER -> NaN

\* pd.to_numeric(cell, errors="coerce")
ToNumeric(x) == IF x.k = "txt" THEN ParseNumber(x.s) ELSE x

\* .fillna(default)
FillNa(x, default) == IF x.k = "nan" THEN default ELSE x

\* a plausible slip: only the upper end is clipped
ClipUpper(x, lo, hi) ==
    CASE x.k = "num" -> IF x.v > hi THEN Num(hi) ELSE x
      [] x.k = "inf" -> IF x.v > 0 THEN Num(hi) ELSE x
      [] OTHER -> x

\* Series.clip(lower=lo, upper=hi) on one cell
Clip(x, lo, hi) ==
    CASE x.k = "num" -> IF x.v < lo THEN Num(lo) ELSE IF x.v > hi THEN Num(hi) ELSE x
      [] x.k = "inf" -> IF x.v > 0 THEN Num(hi) ELSE Num(lo)
      [] OTHER -> x

\* str.lower().str.strip() on the call types of the model
LowerStrip(s) ==
    CASE s = "VoIP" -> "voip"
      [] s = " Voice " -> "voice"
      [] s = "INTERNATIONAL" -> "international"
      [] OTHER -> s        \* "roaming", "sms", "nan", "": lower case, no blanks

\* c.lower() on an indicator label
LowerLabel(c) == IF c = "type_VoIP" THEN "type_voip" ELSE c

\* rename_map
RenameLabel(c) == IF c = "type_voip" THEN "type_VoIP" ELSE c

\* one column of the loop: add it when missing, then
\* pd.to_numeric(errors="coerce").fillna(default)
CoerceColumn(df, c) ==
    SetCol(df, c,
           [r \in 1..NRows(df) |->
               IF HasCol(df, c) THEN FillNa(ToNumeric(Col(df, c)[r]), Zero)
               ELSE FillNa(ToNumeric(Zero), Zero)])

RECURSIVE CoerceNumeric(_, _)
\* for col, default in numeric_cols.items()
CoerceNumeric(df, j) ==
    IF j > Len(numeric_cols) THEN df
    ELSE CoerceNumeric(CoerceColumn(df, numeric_cols[j]), j + 1)

\* df["call_hour"].clip(lower=0, upper=23)
ClipHour(df) ==
    SetCol(df, "call_hour",
           [r \in 1..NRows(df) |-> Clip(Col(df, "call_hour")[r], 0, 23 * Milli)])

\* call_type: "" when the column is missing, then astype(str), lower, strip
\* (raw tables carry each label once, so df["call_type"] is a Series)
CleanCallType(df) ==
    IF HasCol(df, "call_type")
    THEN [r \in 1..NRows(df) |-> Txt(LowerStrip(StrOf(Col(df, "call_type")[r])))]
    ELSE Const(df, Txt(LowerStrip("")))

\* dummies.columns = [c.lower() ...]
LowerLabels(df) == Table([j \in 1..Len(df.cols) |-> LowerLabel(df.cols[j])], df.rows)

\* dummies.rename(columns=rename_map)
RenameLabels(df) == Table([j \in 1..Len(df.cols) |-> RenameLabel(df.cols[j])], df.rows)

\* get_dummies, labels lower-cased, missing indicators added, renamed
CallTypeDummies(call_type) ==
    RenameLabels(FillMissing(LowerLabels(GetDummies(call_type)), expected_dummies, Zero))

\* out: the seven numeric columns as float, the four indicators as int, fillna(0.0)
AssembleCdr(df, dummies) ==
    Table(final_cols,
          [r \in 1..NRows(df) |->
              [j \in 1..Len(final_cols) |->
                  IF j <= 7
                  THEN FillNa(df.rows[r][FirstPos(df, final_cols[j])], Zero)
                  ELSE FillNa(dummies.rows[r][FirstPos(dummies, final_cols[j])], Zero)]])

CdrFromNumeric(df) == AssembleCdr(df, CallTypeDummies(CleanCallType(df)))

prepare_cdr_features(raw) == Ok(CdrFromNumeric(ClipHour(CoerceNumeric(raw, 1))))

(***************************************************************************)
(* Feature reconstructor (UPI): feature_engineering_upi.py                 *)
(***************************************************************************)
\* floor(1000 * ln(1 + a)) for the amounts a (whole currency units) of the model
Log1pMilli(a) ==
    CASE a = 0 -> 0
      [] a = 5 -> 1791
      [] a = 100 -> 4615
      [] a = 50000 -> 10819
      [] a = 200000 -> 12206

\* np.log1p on one cell: -inf at -1, NaN below -1, TypeError on text
Log1p(x) ==
    CASE x.k = "num" ->
             IF x.v < -Milli THEN NaN
             ELSE IF x.v = -Milli THEN Inf(-1)
             ELSE Num(Log1pMilli(x.v \div Milli))
      [] x.k = "nan" -> NaN
      [] x.k = "inf" -> IF x.v > 0 THEN Inf(1) ELSE NaN
      [] OTHER -> Err

\* a - b
Sub(a, b) ==
    CASE a.k \in {"txt", "err", "ratio"} \/ b.k \in {"txt", "err", "ratio"} -> Err
      [] a.k = "nan" \/ b.k = "nan" -> NaN
      [] a.k = "inf" /\ b.k = "inf" -> IF a.v = b.v THEN NaN ELSE a
      [] a.k = "inf" -> a
      [] b.k = "inf" -> Inf(-b.v)
      [] OTHER -> Num(a.v - b.v)

\* (x.abs() > 1e-9).astype(int): cells are whole thousandths
AbsAboveEps(x) ==
    CASE x.k = "err" -> Err
      [] x.k = "num" -> Bool01(x.v # 0)
      [] x.k = "inf" -> One
      [] OTHER -> Zero

\* ((a == 0) & (b > 0)).astype(int): == never raises, > raises on text
ZeroButAmount(a, b) ==
    CASE b.k \in {"txt", "err", "ratio"} -> Err
      [] OTHER -> Bool01(/\ a.k = "num" /\ a.v = 0
                         /\ \/ (b.k = "num" /\ b.v > 0)
                            \/ (b.k = "inf" /\ b.v > 0))

\* new / (old + 1e-9), kept exact: a finite non-zero quotient stays symbolic
DivEps(new, old) ==
    CASE new.k \in {"txt", "err", "ratio"} \/ old.k \in {"txt", "err", "ratio"} -> Err
      [] new.k = "nan" \/ old.k = "nan" -> NaN
      [] old.k = "inf" -> IF new.k = "inf" THEN NaN ELSE Zero
      [] new.k = "inf" -> IF old.v >= 0 THEN new ELSE Inf(-new.v)
      [] new.v = 0 -> Zero
      [] OTHER -> Ratio(new.v, old.v)

\* the right-hand sides of section 1, on the cells a and b of one row
Formula(out, a, b) ==
    CASE out = "amount_log" -> Log1p(a)
      [] out \in {"orig_balance_change", "dest_balance_change"} -> Sub(a, b)
      [] out \in {"balance_mismatch_orig", "balance_mismatch_dest"} ->
             AbsAboveEps(Sub(a, b))
      [] out \in {"orig_zero_but_amount", "dest_zero_but_amount"} -> ZeroButAmount(a, b)
      [] out \in {"orig_balance_ratio", "dest_balance_ratio"} -> DivEps(a, b)

\* if {a, b}.issubset(df.columns): df[out] = formula(df[a], df[b])
Derive(df, a, b, out) ==
    IF HasCol(df, a) /\ HasCol(df, b)
    THEN SetCol(df, out,
                [r \in 1..NRows(df) |-> Formula(out, Col(df, a)[r], Col(df, b)[r])])
    ELSE df

expected_types ==
    <<"type_CASH_IN", "type_CASH_OUT", "type_DEBIT", "type_PAYMENT", "type_TRANSFER">>

placeholder_cols ==
    <<"sender_amount_mean", "sender_amount_std", "sender_amount_max", "sender_tx_count",
      "sender_balance_mismatch_ratio", "sender_zero_but_ratio",
      "dest_amount_mean", "dest_amount_std", "dest_tx_count", "dest_zero_but_ratio",
      "tx_per_step_orig", "amount_per_step_orig", "avg_amount_per_step_orig",
      "balance_gap_ratio", "relative_amount_to_mean_sender", "amount_to_balance_orig_ratio",
      "amount_balance_gap", "is_large_transfer", "is_same_sender_receiver",
      "is_merchant_dest", "is_customer_dest", "amount_to_sender_mean_ratio",
      "amount_to_balance_gap_ratio", "sender_activity_intensity", "type_encoded">>

FeatureOrderPath == "app/config/feature_order.yaml"

\* section 1: the nine derived columns, each when its inputs are present
CoreTransformations(d0) ==
    Derive(Derive(Derive(Derive(Derive(Derive(Derive(Derive(Derive(d0,
        "amount", "amount", "amount_log"),
        "oldbalanceOrg", "newbalanceOrig", "orig_balance_change"),
        "newbalanceDest", "oldbalanceDest", "dest_balance_change"),
        "orig_balance_change", "amount", "balance_mismatch_orig"),
        "dest_balance_change", "amount", "balance_mismatch_dest"),
        "oldbalanceOrg", "amount", "orig_zero_but_amount"),
        "oldbalanceDest", "amount", "dest_zero_but_amount"),
        "newbalanceOrig", "oldbalanceOrg", "orig_balance_ratio"),
        "newbalanceDest", "oldbalanceDest", "dest_balance_ratio")

\* section 2: the five transaction-type indicators
TypeDummies(df) ==
    IF HasCol(df, "type")
    THEN ConcatCols(df,
             Select(FillMissing(GetDummies(Col(df, "type")), expected_types, Zero),
                    expected_types))
    ELSE FillMissing(df, expected_types, Zero)

\* sections 0-4: everything before the schema is read
upi_engineered(raw) ==
    DropCols(FillMissing(TypeDummies(CoreTransformations(
                 DropCols(raw, {"isFraud", "isFlaggedFraud"}))),
                 placeholder_cols, Zero),
             {"step", "nameOrig", "nameDest", "type"})

\* section 5: the schema is read, missing columns are added, df[training_order]
upi_reorder(df, training_order) ==
    Select(FillMissing(df, training_order, Zero), training_order)

upi_finish(df, dsk) ==
    IF AnyErr(df) THEN Raise("TypeError", <<>>)
    ELSE IF FeatureOrderPath \notin dsk.exists
    THEN Raise("FileNotFoundError", <<FeatureOrderPath>>)
    ELSE Ok(upi_reorder(df, dsk.feature_order))

prepare_upi_features(raw, dsk) == upi_finish(upi_engineered(raw), dsk)


(***************************************************************************)
(* Raw tables and configuration the reconstructors are run on              *)
(***************************************************************************)
\* the canonical schema is read from feature_order.yaml ("upi_features")
FeatureOrderA ==
    <<"amount", "oldbalanceOrg", "newbalanceOrig", "oldbalanceDest", "newbalanceDest",
      "amount_log", "orig_balance_change", "balance_mismatch_orig",
      "orig_zero_but_amount", "orig_balance_ratio", "type_CASH_IN", "type_TRANSFER",
      "sender_tx_count", "is_large_transfer">>
FeatureOrderB ==
    <<"type_PAYMENT", "amount_log", "dest_balance_change", "balance_mismatch_dest",
      "dest_zero_but_amount", "dest_balance_ratio", "step">>

SchemaDisks ==
    {[exists |-> {FeatureOrderPath}, model_paths |-> <<>>, feature_order |-> FeatureOrderA],
     [exists |-> {FeatureOrderPath}, model_paths |-> <<>>, feature_order |-> FeatureOrderB],
     NoDisk}

UpiRawCols ==
    <<"amount", "oldbalanceOrg", "newbalanceOrig", "oldbalanceDest", "newbalanceDest",
      "type", "type_CASH_IN", "isFraud", "sender_tx_count", "nameOrig">>
RawCells(c) ==
    CASE c = "amount" ->
             {Num(0), Num(5 * Milli), Num(200000 * Milli), Num(-Milli), NaN, Txt("abc")}
      [] c = "oldbalanceOrg" -> {Num(0), Num(5 * Milli), NaN, Inf(1)}
      [] c = "newbalanceOrig" -> {Num(0), Num(5 * Milli), Inf(1), Txt("abc")}
      [] c = "oldbalanceDest" -> {Num(0), Num(5 * Milli)}
      [] c = "newbalanceDest" -> {Num(5 * Milli), NaN}
      [] c = "type" -> {Txt("CASH_IN"), Txt("WIRE"), NaN}
      [] c = "type_CASH_IN" -> {Zero, One}
      [] c = "isFraud" -> {One}
      [] c = "sender_tx_count" -> {Num(200 * Milli), NaN}
      [] c = "nameOrig" -> {Txt("C1")}
      [] c = "call_duration" -> {Num(2 * Milli), Num(60 * Milli), NaN, Inf(1), Txt("abc")}
      [] c = "call_cost" -> {Num(250 * Milli), Txt("inf")}
      [] c = "call_hour" ->
             {Num(-3 * Milli), Num(12500), Num(30 * Milli), NaN, Inf(-1), Txt("7")}
      [] c = "tower_switch_rate" -> {Num(950), NaN, Txt("abc")}
      [] c = "call_type" ->
             {Txt("VoIP"), Txt(" Voice "), Txt("INTERNATIONAL"), Txt("sms"), NaN}
      [] c = "type_voice" -> {One}
      [] c = "is_international" -> {One}

CdrRawCols ==
    <<"call_duration", "call_cost", "call_hour", "tower_switch_rate",
      "call_type", "type_voice", "is_international">>
RECURSIVE Ascending(_)
Ascending(S) ==
    IF S = {} THEN <<>>
    ELSE LET m == CHOOSE x \in S : \A y \in S : x <= y
         IN  <<m>> \o Ascending(S \ {m})

\* the choices of at most n columns of a universe, in the universe's order
ColumnChoices(universe, n) ==
    {[j \in 1..Cardinality(S) |-> universe[Ascending(S)[j]]] :
        S \in {T \in SUBSET (1..Len(universe)) : Cardinality(T) <= n}}

RECURSIVE RowsOver(_, _)
\* the rows whose i-th cell is drawn from the i-th set
RowsOver(sets, i) ==
    IF i > Len(sets) THEN {<<>>}
    ELSE {<<x>> \o rest : x \in sets[i], rest \in RowsOver(sets, i + 1)}

\* every table of at most MaxCells cells over the universe, each label once
RawTables(universe) ==
    UNION {UNION {{Table(cols, rows) : rows \in [1..n -> RowsOver([j \in 1..Len(cols) |-> RawCells(cols[j])], 1)]} :
                    n \in {m \in 0..MaxCells : m * Len(cols) <= MaxCells
                                               /\ (Len(cols) = 0 => m = 0)}} :
             cols \in ColumnChoices(universe, MaxCells)}

UpiTables == RawTables(UpiRawCols)
CdrTables == RawTables(CdrRawCols)

PrepareUpiFeatures ==
    /\ pc = "called"
    /\ op = "prepare_upi_features"
    /\ ret' = prepare_upi_features(args.df, disk)
    /\ pc' = "returned"
    /\ UNCHANGED <<op, args, thresholdFile, disk, loaded>>

PrepareCdrFeatures ==
    /\ pc = "called"
    /\ op = "prepare_cdr_features"
    /\ ret' = prepare_cdr_features(args.df)
    /\ pc' = "returned"
    /\ UNCHANGED <<op, args, thresholdFile, disk, loaded>>

InitFeatures ==
    /\ pc = "called"
    /\ \/ op = "prepare_upi_features" /\ args \in [df : UpiTables]
       \/ op = "prepare_cdr_features" /\ args \in [df : CdrTables]
    /\ ret = Pending
    /\ thresholdFile = NoRecord
    /\ disk \in SchemaDisks
    /\ loaded = {}

NextFeatures == PrepareUpiFeatures \/ PrepareCdrFeatures
SpecFeatures == InitFeatures /\ [][NextFeatures]_vars


(***************************************************************************)
(* Claims about the feature reconstructors                                 *)
(***************************************************************************)
UpiReturned == pc = "returned" /\ op = "prepare_upi_features"
CdrReturned == pc = "returned" /\ op = "prepare_cdr_features"

\* the 11 names the specification fixes for the CDR feature vector
StatedCdrSchema ==
    <<"call_duration", "call_cost", "cost_per_sec", "call_hour",
      "distinct_callees_last_24h", "tower_switch_rate", "repeated_short_calls_last_1h",
      "type_VoIP", "type_international", "type_roaming", "type_voice">>

\* C4: for both domains and every raw table (columns missing, extra columns,
\* indicator columns present beside the raw categorical column), the output of
\* the reconstructor has exactly the canonical schema's columns, each once, in
\* canonical order (the loaded 'upi_features' list; the 11 fixed CDR names),
\* and one row per input row.
C4_OutputHasCanonicalSchema ==
    /\ (UpiReturned /\ ret.status = "ok") =>
          /\ ret.value.cols = disk.feature_order
          /\ NRows(ret.value) = NRows(args.df)
    /\ (CdrReturned /\ ret.status = "ok") =>
          /\ ret.value.cols = StatedCdrSchema
          /\ NRows(ret.value) = NRows(args.df)

\* C5: every value of every feature vector produced by either reconstructor
\* is a finite number, whatever the raw cells hold (missing, text, infinite),
\* and such a data-quality issue never makes the batch fail.
C5_FeaturesAreFinite ==
    (UpiReturned \/ CdrReturned) =>
        /\ ret.status = "raise" => ret.error = "FileNotFoundError"
        /\ ret.status = "ok" =>
              \A r \in 1..NRows(ret.value) : \A i \in 1..Len(ret.value.cols) :
                  IsFinite(ret.value.rows[r][i])

\* what a raw cell of a required numeric column stands for: the number it
\* holds or spells, and 0.0 when it holds none
StatedNumber(x) ==
    CASE x.k \in {"num", "inf"} -> x
      [] x.k = "txt" /\ ParseNumber(x.s) # NaN -> ParseNumber(x.s)
      [] OTHER -> Zero

StatedHour(x) ==
    CASE x.k = "inf" -> IF x.v > 0 THEN Num(23 * Milli) ELSE Zero
      [] x.v < 0 -> Zero
      [] x.v > 23 * Milli -> Num(23 * Milli)
      [] OTHER -> x

\* C6: prepare_cdr_features never raises; each of the seven required numeric
\* columns that is missing, or whose cell is non-numeric or empty, is 0.0 in
\* the output; a numeric cell passes through unchanged, except call_hour,
\* which is always within 0..23 (below 0 becomes 0, above 23 becomes 23).
C6_CdrDefaultsAndClamp ==
    CdrReturned =>
        /\ ret.status = "ok"
        /\ \A r \in 1..NRows(args.df) : \A j \in 1..7 :
              LET c == StatedCdrSchema[j]
                  given == IF HasCol(args.df, c) THEN StatedNumber(Col(args.df, c)[r])
                           ELSE Zero
                  out == ret.value.rows[r][j]
              IN  IF c = "call_hour"
                  THEN /\ out = StatedHour(given)
                       /\ out.k = "num" /\ out.v >= 0 /\ out.v <= 23 * Milli
                  ELSE out = given

\* a table with an hour below 0, an hour above 23 and an unparsable duration
\* has been reconstructed
C6_Witness ==
    /\ CdrReturned
    /\ NRows(args.df) = 2
    /\ args.df.cols = <<"call_hour">>
    /\ args.df.rows[1][1] = Num(-3 * Milli)
    /\ args.df.rows[2][1] = Num(30 * Milli)
    /\ ret.status = "ok"
    /\ ret.value.rows[1][4] = Zero
    /\ ret.value.rows[2][4] = Num(23 * Milli)
    /\ ret.value.rows[1][1] = Zero


(***************************************************************************)
(* Scorer: prediction.py normalize_probabilities, predict_supervised       *)
(***************************************************************************)
NpMin(v) == CHOOSE x \in Range(v) : \A y \in Range(v) : x <= y
NpMax(v) == CHOOSE x \in Range(v) : \A y \in Range(v) : x >= y
Abs(x) == IF x < 0 THEN -x ELSE x

\* a plausible slip: the guard compares for equality
ExactlyEqual(a, b) == a = b

\* np.allclose(a, b): |a - b| <= atol + rtol * |b| with atol = 1e-8 and
\* rtol = 1e-5; on millionths, 10^5 * |a - b| <= 10^3 + |b|
AllClose(a, b) == Abs(a - b) <= (10^3 + Abs(b)) \div 10^5

\* probs: numerators of fractions over Micro.  np.min of an empty array raises
normalize_probabilities(probs) ==
    IF probs = <<>> THEN Raise("ValueError", <<>>)
    ELSE IF AllClose(NpMin(probs), NpMax(probs))
    THEN Ok([i \in 1..Len(probs) |-> Frac(0, 1)])
    ELSE Ok([i \in 1..Len(probs) |->
                Frac(probs[i] - NpMin(probs), NpMax(probs) - NpMin(probs))])

\* Stand-ins for the opaque artifacts.  A classifier answers hi when feature
\* feat of the row is a finite number >= thr and lo otherwise (millionths); a
\* scaler subtracts shift from every finite number.
PredictProba(m, X) ==
    [r \in 1..NRows(X) |->
        IF X.rows[r][m.feat].k = "num" /\ X.rows[r][m.feat].v >= m.thr
        THEN m.hi ELSE m.lo]
Transform(sc, X) ==
    Table(X.cols,
          [r \in 1..NRows(X) |->
              [i \in 1..Len(X.cols) |->
                  IF X.rows[r][i].k = "num" THEN Num(X.rows[r][i].v - sc.shift)
                  ELSE X.rows[r][i]]])

\* a plausible slip: the two primary weights exchanged
BlendSwapped(p_xgb, p_rf, p_meta) == (4 * p_xgb + 6 * p_rf + 10 * p_meta) \div 20

\* (p_xgb * 0.6 + p_rf * 0.4) * 0.5 + p_meta * 0.5, exact on millionths that
\* are multiples of ten
Blend(p_xgb, p_rf, p_meta) == (6 * p_xgb + 4 * p_rf + 10 * p_meta) \div 20

\* lines 78-87: the two primary classifiers on X, the meta-refiner on the
\* scaled X, blended row by row
p_final(models, X) ==
    [r \in 1..NRows(X) |->
        Blend(PredictProba(models.xgb, X)[r],
              PredictProba(models.rf, X)[r],
              PredictProba(models.lr, Transform(models.scaler_lr, X))[r])]

AsFractions(v) == [i \in 1..Len(v) |-> Frac(v[i], Micro)]

\* lines 77-92, once the features are there
score_features(models, X, normalize) ==
    IF normalize THEN normalize_probabilities(p_final(models, X))
    ELSE Ok(AsFractions(p_final(models, X)))

\* what prepare_*_features returned or raised decides whether scoring starts
score_prepared(models, prepared, normalize) ==
    IF prepared.status = "ok" THEN score_features(models, prepared.value, normalize)
    ELSE prepared

predict_supervised(models, df_raw, mode, normalize, dsk) ==
    CASE mode = "upi" ->
             score_prepared(models, prepare_upi_features(df_raw, dsk), normalize)
      [] mode = "cdr" -> score_prepared(models, prepare_cdr_features(df_raw), normalize)
      [] OTHER -> Raise("ValueError", <<mode>>)

Classifier(feat, thr, lo, hi) == [feat |-> feat, thr |-> thr, lo |-> lo, hi |-> hi]
StubBundles ==
    {[xgb |-> Classifier(1, 5 * Milli, 0, Micro),
      rf |-> Classifier(1, 60 * Milli, 200000, 900000),
      lr |-> Classifier(1, 0, 100000, 500000),
      scaler_lr |-> [shift |-> 5 * Milli]],
     [xgb |-> Classifier(1, 0, 500000, 500000),
      rf |-> Classifier(1, 0, 500000, 500000),
      lr |-> Classifier(1, 1, 500000, 500010),
      scaler_lr |-> [shift |-> 0]],
     [xgb |-> Classifier(2, 1, 300000, 700000),
      rf |-> Classifier(1, 0, 0, Micro),
      lr |-> Classifier(2, 0, 0, 960000),
      scaler_lr |-> [shift |-> 1]],
     [xgb |-> Classifier(1, 0, Micro, Micro),
      rf |-> Classifier(1, 0, Micro, Micro),
      lr |-> Classifier(1, 0, Micro, Micro),
      scaler_lr |-> [shift |-> 0]]}

\* batches of one raw column, of at most MaxScoreRows rows
ScoreTables ==
    UNION {{Table(<<c>>, rows) : rows \in SeqsUpTo({<<x>> : x \in RawCells(c)}, MaxScoreRows)} :
             c \in {"amount", "call_duration"}}

\* probability arrays (millionths) around the tolerance of the guard
NormProbs == {0, 1, 500000, 500005, 500006, 999990, Micro}

NormalizeProbabilities ==
    /\ pc = "called"
    /\ op = "normalize_probabilities"
    /\ ret' = normalize_probabilities(args.probs)
    /\ pc' = "returned"
    /\ UNCHANGED <<op, args, thresholdFile, disk, loaded>>

PredictSupervised ==
    /\ pc = "called"
    /\ op = "predict_supervised"
    /\ ret' = predict_supervised(args.models, args.df, args.mode, args.normalize, disk)
    /\ pc' = "returned"
    /\ UNCHANGED <<op, args, thresholdFile, disk, loaded>>

InitScore ==
    /\ pc = "called"
    /\ \/ /\ op = "normalize_probabilities"
          /\ args \in [probs : SeqsUpTo(NormProbs, MaxProbs)]
          /\ disk = NoDisk
       \/ /\ op = "predict_supervised"
          /\ args \in [models : StubBundles, df : ScoreTables,
                       mode : {"upi", "cdr", "sms"}, normalize : BOOLEAN]
          /\ disk \in SchemaDisks
    /\ ret = Pending
    /\ thresholdFile = NoRecord
    /\ loaded = {}

NextScore == NormalizeProbabilities \/ PredictSupervised
SpecScore == InitScore /\ [][NextScore]_vars

(***************************************************************************)
(* Claims about the scorer                                                 *)
(***************************************************************************)
ScoreReturned == pc = "returned" /\ op = "predict_supervised" /\ ret.status = "ok"

\* the reconstructed feature vectors of the call that returned
Reconstructed ==
    IF args.mode = "upi" THEN prepare_upi_features(args.df, disk).value
    ELSE prepare_cdr_features(args.df).value

\* 0.5*(0.6*a + 0.4*b) + 0.5*m on millionths
StatedBlend(a, b, m) == (5 * (6 * a + 4 * b) + 50 * m) \div 100

StatedScoresOf(models, X) ==
    [i \in 1..NRows(X) |->
        StatedBlend(PredictProba(models.xgb, X)[i],
                    PredictProba(models.rf, X)[i],
                    PredictProba(models.lr, Transform(models.scaler_lr, X))[i])]
StatedScores == StatedScoresOf(args.models, Reconstructed)
IsStatedBlend(scores, out) ==
    /\ Len(out) = NRows(args.df)
    /\ \A i \in 1..Len(out) :
          /\ out[i] = Frac(scores[i], Micro)
          /\ 0 <= out[i].n /\ out[i].n <= out[i].d

\* C2: predict_supervised with normalize=False returns one value per input
\* row, equal to 0.5*(0.6*p_A + 0.4*p_B) + 0.5*p_meta with p_A, p_B the two
\* primary classifiers on the reconstructed features and p_meta the
\* meta-refiner on the scaled features; the value lies in [0,1].
C2_BlendIsWeightedSum ==
    (ScoreReturned /\ ~args.normalize) => IsStatedBlend(StatedScores, ret.value)

C2_Witness ==
    /\ ScoreReturned
    /\ ~args.normalize
    /\ args.mode = "upi"
    /\ args.df = Table(<<"amount">>, <<<<Num(5 * Milli)>>, <<Num(0)>>>>)
    /\ ret.value = <<Frac(590000, Micro), Frac(90000, Micro)>>

\* the probability vector handed to the normaliser by the call that returned
NormInput ==
    IF op = "normalize_probabilities" THEN args.probs ELSE StatedScores
NormReturned ==
    /\ pc = "returned"
    /\ \/ op = "normalize_probabilities"
       \/ op = "predict_supervised" /\ args.normalize /\ args.mode \in {"upi", "cdr"}
             /\ (ret.status = "raise" => ret.error = "ValueError")
AllZeros(v) == \A i \in 1..Len(v) : v[i].n = 0
\* the smallest input maps to 0, the largest to 1, every output is in [0,1]
\* and no pair of values is inverted
MinMaxScaled(in, out) ==
    \A i \in 1..Len(in) :
        /\ (\A j \in 1..Len(in) : in[i] <= in[j]) => out[i].n = 0
        /\ (\A j \in 1..Len(in) : in[i] >= in[j]) => out[i].n = out[i].d
        /\ 0 <= out[i].n /\ out[i].n <= out[i].d /\ out[i].d > 0
        /\ \A j \in 1..Len(in) : in[i] <= in[j] => ~FracLt(out[j], out[i])

ZerosIffAllEqual(in, out) ==
    in # <<>> =>
        /\ out.status = "ok"
        /\ Len(out.value) = Len(in)
        /\ AllZeros(out.value) <=> (\A i, j \in 1..Len(in) : in[i] = in[j])
        /\ ~AllZeros(out.value) => MinMaxScaled(in, out.value)
\* C3 as stated: for a batch of at least one row the normalised output has the
\* length of the input and is all zeros if and only if all values of the
\* batch are equal; otherwise it is the min-max scaling onto [0,1].
C3_ZerosIffAllEqual == NormReturned => ZerosIffAllEqual(NormInput, ret)

\* the tolerance of the guard, 1e-8 + 1e-5 * |largest|, on millionths
WithinTolerance(v) ==
    \A i, j \in 1..Len(v) : \A k \in 1..Len(v) :
        (\A l \in 1..Len(v) : v[k] >= v[l]) =>
            Abs(v[i] - v[j]) <= (1000 + Abs(v[k])) \div 100000

ZerosIffWithinTolerance(in, out) ==
    in # <<>> =>
        /\ out.status = "ok"
        /\ Len(out.value) = Len(in)
        /\ AllZeros(out.value) <=> WithinTolerance(in)
        /\ ~AllZeros(out.value) => MinMaxScaled(in, out.value)
\* C3 amended: for a non-empty batch the output has the length of the input;
\* it is all zeros if and only if largest and smallest value differ by at
\* most 1e-8 + 1e-5 * |largest| (equal values and single rows included);
\* otherwise it is the min-max scaling onto [0,1].
C3_ZerosIffWithinTolerance == NormReturned => ZerosIffWithinTolerance(NormInput, ret)

C3_Witness ==
    /\ NormReturned
    /\ op = "normalize_probabilities"
    /\ args.probs = <<500000, 500005, 500000>>
    /\ ret = Ok(<<Frac(0, 1), Frac(0, 1), Frac(0, 1)>>)

(***************************************************************************)
(* Loader: prediction.py load_models                                       *)
(***************************************************************************)
ModelPathsConfig == "app/config/model_paths.yaml"
ProjectRoot == "/project"

\* os.path.join(project_root, v) for a relative v
AbsPath(v) == ProjectRoot \o "/" \o v

\* paths: the domain's mapping as the YAML lists it, a sequence of
\* [key, path]; abs_paths keeps the keys and the order
abs_paths(paths) == [i \in 1..Len(paths) |-> [key |-> paths[i].key, path |-> AbsPath(paths[i].path)]]
Values(m) == [i \in 1..Len(m) |-> m[i].path]
Keys(m) == {m[i].key : i \in 1..Len(m)}
Lookup(m, k) == m[CHOOSE i \in 1..Len(m) : m[i].key = k].path

NotExists(dsk, p) == p \notin dsk.exists
\* a plausible slip: stop at the first file that is not there
missing_first(ps, dsk) ==
    IF \E i \in 1..Len(ps) : NotExists(dsk, ps[i])
    THEN <<ps[CHOOSE i \in 1..Len(ps) :
                /\ NotExists(dsk, ps[i])
                /\ \A j \in 1..(i - 1) : ~NotExists(dsk, ps[j])]>>
    ELSE <<>>

\* [p for p in abs_paths.values() if not os.path.exists(p)]
missing(ps, dsk) == SelectSeq(ps, LAMBDA p : NotExists(dsk, p))

\* the dict literal of lines 35-44: role, key read from abs_paths, in order
LoadOrder ==
    <<[role |-> "xgb", key |-> "xgb"], [role |-> "rf", key |-> "rf"],
      [role |-> "lr", key |-> "lr_meta"], [role |-> "iso", key |-> "iso"],
      [role |-> "ae", key |-> "ae"], [role |-> "scaler_lr", key |-> "scaler_lr"],
      [role |-> "scaler_iso", key |-> "scaler_iso"],
      [role |-> "scaler_ae", key |-> "scaler_ae"]>>

\* the artifact deserialised from the file at path p
Artifact(p) == [from |-> p]
Bundle(ld) == [r \in {x.role : x \in ld} |-> (CHOOSE x \in ld : x.role = r).artifact]

\* lines 17-25: the configuration file and the domain's entry in it
LoadModelsConfig ==
    /\ pc = "called"
    /\ op = "load_models"
    /\ IF ModelPathsConfig \notin disk.exists
       THEN ret' = Raise("FileNotFoundError", <<ModelPathsConfig>>) /\ pc' = "returned"
       ELSE IF args.mode \notin DOMAIN disk.model_paths
       THEN ret' = Raise("KeyError", <<args.mode>>) /\ pc' = "returned"
       ELSE ret' = ret /\ pc' = "validate"
    /\ UNCHANGED <<op, args, thresholdFile, disk, loaded>>

\* lines 27-33: every mapped file is looked for before any is opened
LoadModelsValidate ==
    /\ pc = "validate"
    /\ IF missing(Values(abs_paths(disk.model_paths[args.mode])), disk) # <<>>
       THEN /\ ret' = Raise("FileNotFoundError",
                            missing(Values(abs_paths(disk.model_paths[args.mode])), disk))
            /\ pc' = "returned"
       ELSE ret' = ret /\ pc' = "load"
    /\ UNCHANGED <<op, args, thresholdFile, disk, loaded>>

\* lines 35-44, one entry of the dict literal at a time
LoadModelsArtifact ==
    /\ pc = "load"
    /\ Cardinality(loaded) < Len(LoadOrder)
    /\ LET next == LoadOrder[Cardinality(loaded) + 1]
           m == abs_paths(disk.model_paths[args.mode])
       IN  IF next.key \notin Keys(m)
           THEN /\ ret' = Raise("KeyError", <<next.key>>)
                /\ pc' = "returned"
                /\ loaded' = loaded
           ELSE IF NotExists(disk, Lookup(m, next.key))
           THEN /\ ret' = Raise("FileNotFoundError", <<Lookup(m, next.key)>>)
                /\ pc' = "returned"
                /\ loaded' = loaded
           ELSE /\ loaded' = loaded \cup
                        {[role |-> next.role, artifact |-> Artifact(Lookup(m, next.key))]}
                /\ ret' = ret
                /\ pc' = "load"
    /\ UNCHANGED <<op, args, thresholdFile, disk>>

\* lines 46-47
LoadModelsReturn ==
    /\ pc = "load"
    /\ Cardinality(loaded) = Len(LoadOrder)
    /\ ret' = Ok(Bundle(loaded))
    /\ pc' = "returned"
    /\ UNCHANGED <<op, args, thresholdFile, disk, loaded>>

Entry(k, v) == [key |-> k, path |-> v]
UpiPaths ==
    <<Entry("xgb", "models/upi/xgb.pkl"), Entry("rf", "models/upi/rf.pkl"),
      Entry("lr_meta", "models/upi/lr_meta.pkl"), Entry("iso", "models/upi/iso.pkl"),
      Entry("ae", "models/upi/ae.h5"), Entry("scaler_lr", "models/upi/scaler_lr.pkl"),
      Entry("scaler_iso", "models/upi/scaler_iso.pkl"),
      Entry("scaler_ae", "models/upi/scaler_ae.pkl")>>
\* a mapping in another order, with an entry that is no role
CdrPaths ==
    <<Entry("scaler_ae", "models/cdr/scalers.pkl"), Entry("scaler_iso", "models/cdr/scalers.pkl"),
      Entry("scaler_lr", "models/cdr/scalers.pkl"), Entry("ae", "models/cdr/ae.h5"),
      Entry("iso", "models/cdr/iso.pkl"), Entry("lr_meta", "models/cdr/lr_meta.pkl"),
      Entry("rf", "models/cdr/rf.pkl"), Entry("xgb", "models/cdr/xgb.pkl"),
      Entry("report", "models/cdr/report.json")>>
\* a mapping that names no meta-refiner
CdrPathsNoMeta == SelectSeq(CdrPaths, LAMBDA e : e.key \notin {"lr_meta", "report"})

FilesOf(paths) == {AbsPath(paths[i].path) : i \in 1..Len(paths)}
CdrFileSets ==
    {{}, FilesOf(CdrPaths), FilesOf(CdrPaths) \ {AbsPath("models/cdr/report.json")}}

LoaderDisks ==
    {[exists |-> S \cup G, model_paths |-> M, feature_order |-> <<>>] :
        S \in SUBSET (FilesOf(UpiPaths) \cup {ModelPathsConfig}),
        G \in CdrFileSets,
        M \in {[upi |-> UpiPaths, cdr |-> CdrPaths], [upi |-> UpiPaths, cdr |-> CdrPathsNoMeta]}}

InitLoad ==
    /\ pc = "called"
    /\ op = "load_models"
    /\ args \in [mode : {"upi", "cdr", "sms"}]
    /\ disk \in LoaderDisks
    /\ ret = Pending
    /\ thresholdFile = NoRecord
    /\ loaded = {}

NextLoad == LoadModelsConfig \/ LoadModelsValidate \/ LoadModelsArtifact \/ LoadModelsReturn
SpecLoad == InitLoad /\ [][NextLoad]_vars

(***************************************************************************)
(* Claims about the loader                                                 *)
(***************************************************************************)
EightRoles == {"xgb", "rf", "lr", "iso", "ae", "scaler_lr", "scaler_iso", "scaler_ae"}
\* the file the domain's mapping names for a role (the meta-refiner is
\* listed under lr_meta)
NamedFile(role) ==
    LET k == IF role = "lr" THEN "lr_meta" ELSE role
        paths == disk.model_paths[args.mode]
    IN  ProjectRoot \o "/" \o paths[CHOOSE i \in 1..Len(paths) : paths[i].key = k].path
Configured == ModelPathsConfig \in disk.exists /\ args.mode \in DOMAIN disk.model_paths
StatedMissing ==
    {ProjectRoot \o "/" \o disk.model_paths[args.mode][i].path :
        i \in 1..Len(disk.model_paths[args.mode])} \ disk.exists

\* C7: load_models returns a bundle of all eight roles or fails and returns
\* nothing; if files named in the domain's mapping are missing it fails with
\* FileNotFoundError listing every missing path, and no artifact is loaded.
C7_LoadIsAllOrNothing ==
    op = "load_models" =>
        /\ pc = "returned" =>
              \/ /\ ret.status = "ok"
                 /\ DOMAIN ret.value = EightRoles
                 /\ \A r \in EightRoles : ret.value[r] = Artifact(NamedFile(r))
              \/ /\ ret.status = "raise"
                 /\ "value" \notin DOMAIN ret
        /\ (Configured /\ StatedMissing # {}) =>
              /\ loaded = {}
              /\ pc = "returned" =>
                    /\ ret.status = "raise"
                    /\ ret.error = "FileNotFoundError"
                    /\ Range(ret.message) = StatedMissing

C7_Witness ==
    /\ pc = "returned"
    /\ op = "load_models"
    /\ args.mode = "upi"
    /\ ret = Raise("FileNotFoundError",
                   <<"/project/models/upi/rf.pkl", "/project/models/upi/scaler_ae.pkl">>)
    /\ loaded = {}

(***************************************************************************)
(* Reason generator: reason_generator.py generate_reason                   *)
(***************************************************************************)
\* row: a pandas Series, [index |-> labels, values |-> cells]
Series(index, values) == [index |-> index, values |-> values]

\* row.get(field, 0)
Get(row, field) ==
    IF \E i \in 1..Len(row.index) : row.index[i] = field
    THEN row.values[CHOOSE i \in 1..Len(row.index) : row.index[i] = field]
    ELSE Zero

\* x > t, x < t, x == 1 on a cell, t in thousandths; NaN compares false,
\* text against a number raises on > and < and is unequal on ==
Gt(x, t) ==
    CASE x.k = "num" -> x.v > t
      [] x.k = "inf" -> x.v = 1
      [] OTHER -> FALSE
Lt(x, t) ==
    CASE x.k = "num" -> x.v < t
      [] x.k = "inf" -> x.v = -1
      [] OTHER -> FALSE
Eq1(x) == x.k = "num" /\ x.v = Milli
When(b, clause) == IF b THEN <<clause>> ELSE <<>>

UpiCompared ==
    {"amount_log", "sender_tx_count", "sender_amount_std",
     "relative_amount_to_mean_sender", "balance_gap_ratio"}
CdrCompared ==
    {"call_duration", "tower_switch_rate", "repeated_short_calls_last_1h",
     "distinct_callees_last_24h", "call_cost"}
\* some > or < of the branch meets a text value
ComparesText(row, fields) == \E f \in fields : Get(row, f).k = "txt"

\* lines 23-52, the appends in order (the typographic apostrophe of two
\* clauses is written ')
upi_reasons(row) ==
    (IF Gt(Get(row, "amount_log"), 11500) THEN <<"Unusually large transaction amount">>
     ELSE When(Gt(Get(row, "amount_log"), 10500), "Higher-than-average transaction amount"))
    \o When(Eq1(Get(row, "balance_mismatch_orig")), "Mismatch in sender balance update")
    \o When(Eq1(Get(row, "balance_mismatch_dest")), "Mismatch in receiver balance update")
    \o When(Eq1(Get(row, "orig_zero_but_amount")), "Transfer initiated from zero balance account")
    \o When(Eq1(Get(row, "dest_zero_but_amount")), "Receiver had zero balance before transfer")
    \o When(Gt(Get(row, "sender_tx_count"), 100 * Milli), "Unusually high sender activity volume")
    \o When(Gt(Get(row, "sender_amount_std"), 500000 * Milli),
            "High variation in sender's transaction amounts")
    \o When(Gt(Get(row, "relative_amount_to_mean_sender"), 5 * Milli),
            "Amount deviates sharply from sender's usual pattern")
    \o When(Gt(Get(row, "balance_gap_ratio"), 800), "Large balance fluctuation detected")
    \o When(Eq1(Get(row, "is_same_sender_receiver")), "Sender and receiver accounts are identical")
    \o When(Eq1(Get(row, "is_large_transfer")), "Marked as large-value transfer")

\* lines 62-75
cdr_reasons(row) ==
    When(Lt(Get(row, "call_duration"), 5 * Milli), "Very short call duration pattern")
    \o When(Gt(Get(row, "tower_switch_rate"), 600), "High tower switching frequency detected")
    \o When(Gt(Get(row, "repeated_short_calls_last_1h"), 3 * Milli),
            "Repeated short-duration calls within an hour")
    \o When(Gt(Get(row, "distinct_callees_last_24h"), 50 * Milli),
            "Abnormally high number of distinct callees")
    \o When(Eq1(Get(row, "is_international")), "International call detected")
    \o When(Gt(Get(row, "call_cost"), 200 * Milli), "High call cost relative to duration")
    \o When(Gt(Get(row, "tower_switch_rate"), 900),
            "Extreme cell tower switching, potential SIM-box activity")

\* if not reasons: reasons.append(fallback)
OrFallback(reasons, fallback) == IF reasons = <<>> THEN <<fallback>> ELSE reasons

\* a plausible slip: the limit left out
NoLimit(reasons) == reasons

\* reasons[:4]
FirstFour(reasons) == SubSeq(reasons, 1, IF Len(reasons) < 4 THEN Len(reasons) ELSE 4)

RECURSIVE Join(_)
\* " + ".join(reasons)
Join(reasons) ==
    IF reasons = <<>> THEN ""
    ELSE IF Len(reasons) = 1 THEN reasons[1]
    ELSE reasons[1] \o " + " \o Join(Tail(reasons))

generate_reason(row, mode) ==
    IF mode = "upi"
    THEN IF ComparesText(row, UpiCompared) THEN Raise("TypeError", <<>>)
         ELSE Ok(Join(FirstFour(OrFallback(upi_reasons(row),
                 "Transaction shows irregular account or balance behavior"))))
    ELSE IF ComparesText(row, CdrCompared) THEN Raise("TypeError", <<>>)
         ELSE Ok(Join(FirstFour(OrFallback(cdr_reasons(row), "Normal call pattern detected"))))

UpiReasonFields ==
    <<"amount_log", "balance_mismatch_orig", "balance_mismatch_dest",
      "orig_zero_but_amount", "dest_zero_but_amount", "sender_tx_count",
      "sender_amount_std", "relative_amount_to_mean_sender", "balance_gap_ratio",
      "is_same_sender_receiver", "is_large_transfer">>
CdrReasonFields ==
    <<"call_duration", "tower_switch_rate", "repeated_short_calls_last_1h",
      "distinct_callees_last_24h", "is_international", "call_cost">>

\* values of a field on both sides of the cut-off the generator uses; a flag
\* that is 0 reads as a flag the row lacks
ReasonCells(f) ==
    CASE f = "amount_log" ->
             {Num(10500), Num(11000), Num(11500), Num(12206), NaN, Txt("abc")}
      [] f = "sender_tx_count" -> {Num(100 * Milli), Num(101 * Milli)}
      [] f = "sender_amount_std" -> {Num(500000 * Milli), Num(500001 * Milli)}
      [] f = "relative_amount_to_mean_sender" -> {Num(5 * Milli), Num(5001)}
      [] f = "balance_gap_ratio" -> {Num(800), Inf(1)}
      [] f = "call_duration" -> {Num(2 * Milli), Num(5 * Milli), NaN, Txt("abc")}
      [] f = "tower_switch_rate" -> {Num(600), Num(700), Num(900), Num(950)}
      [] f = "repeated_short_calls_last_1h" -> {Num(3 * Milli), Num(5 * Milli)}
      [] f = "distinct_callees_last_24h" -> {Num(50 * Milli), Num(70 * Milli)}
      [] f = "call_cost" -> {Num(200 * Milli), Num(250 * Milli), Inf(1)}
      [] f \in {"balance_mismatch_orig", "is_international"} -> {Zero, One}
      [] OTHER -> {One}

\* the rows that carry at most MaxFields of the fields
ReasonRows(fields) ==
    UNION {{Series(index, values) :
              values \in RowsOver([j \in 1..Len(index) |-> ReasonCells(index[j])], 1)} :
           index \in ColumnChoices(fields, MaxFields)}

GenerateReason ==
    /\ pc = "called"
    /\ op = "generate_reason"
    /\ ret' = generate_reason(args.row, args.mode)
    /\ pc' = "returned"
    /\ UNCHANGED <<op, args, thresholdFile, disk, loaded>>

InitReason ==
    /\ pc = "called"
    /\ op = "generate_reason"
    /\ \/ args \in [row : ReasonRows(UpiReasonFields), mode : {"upi"}]
       \/ args \in [row : ReasonRows(CdrReasonFields), mode : {"cdr", "upi", "sms"}]
    /\ ret = Pending
    /\ thresholdFile = NoRecord
    /\ disk = NoDisk
    /\ loaded = {}

NextReason == GenerateReason
SpecReason == InitReason /\ [][NextReason]_vars

(***************************************************************************)
(* Claims about the reason generator                                       *)
(***************************************************************************)
ReasonReturned == pc = "returned" /\ op = "generate_reason" /\ ret.status = "ok"

\* the number a field holds (0 when the row lacks it) is above / below t
\* thousandths, or is 1
Has(row, f) == \E i \in 1..Len(row.index) : row.index[i] = f
ValueOf(row, f) == row.values[CHOOSE i \in 1..Len(row.index) : row.index[i] = f]
Above(row, f, t) ==
    IF Has(row, f)
    THEN \/ ValueOf(row, f).k = "num" /\ ValueOf(row, f).v > t
         \/ ValueOf(row, f) = Inf(1)
    ELSE 0 > t
Below(row, f, t) ==
    IF Has(row, f)
    THEN \/ ValueOf(row, f).k = "num" /\ ValueOf(row, f).v < t
         \/ ValueOf(row, f) = Inf(-1)
    ELSE 0 < t
IsOne(row, f) == Has(row, f) /\ ValueOf(row, f) = Num(1000)
P(holds, clause) == [holds |-> holds, clause |-> clause]

\* the predicates in declared order; the two amount tiers exclude each other
StatedPredicates(row, mode) ==
    IF mode = "upi"
    THEN <<P(Above(row, "amount_log", 11500), "Unusually large transaction amount"),
           P(Above(row, "amount_log", 10500) /\ ~Above(row, "amount_log", 11500),
             "Higher-than-average transaction amount"),
           P(IsOne(row, "balance_mismatch_orig"), "Mismatch in sender balance update"),
           P(IsOne(row, "balance_mismatch_dest"), "Mismatch in receiver balance update"),
           P(IsOne(row, "orig_zero_but_amount"), "Transfer initiated from zero balance account"),
           P(IsOne(row, "dest_zero_but_amount"), "Receiver had zero balance before transfer"),
           P(Above(row, "sender_tx_count", 100000), "Unusually high sender activity volume"),
           P(Above(row, "sender_amount_std", 500000000),
             "High variation in sender's transaction amounts"),
           P(Above(row, "relative_amount_to_mean_sender", 5000),
             "Amount deviates sharply from sender's usual pattern"),
           P(Above(row, "balance_gap_ratio", 800), "Large balance fluctuation detected"),
           P(IsOne(row, "is_same_sender_receiver"), "Sender and receiver accounts are identical"),
           P(IsOne(row, "is_large_transfer"), "Marked as large-value transfer")>>
    ELSE <<P(Below(row, "call_duration", 5000), "Very short call duration pattern"),
           P(Above(row, "tower_switch_rate", 600), "High tower switching frequency detected"),
           P(Above(row, "repeated_short_calls_last_1h", 3000),
             "Repeated short-duration calls within an hour"),
           P(Above(row, "distinct_callees_last_24h", 50000),
             "Abnormally high number of distinct callees"),
           P(IsOne(row, "is_international"), "International call detected"),
           P(Above(row, "call_cost", 200000), "High call cost relative to duration"),
           P(Above(row, "tower_switch_rate", 900),
             "Extreme cell tower switching, potential SIM-box activity")>>
StatedFallback(mode) ==
    IF mode = "upi" THEN "Transaction shows irregular account or balance behavior"
    ELSE "Normal call pattern detected"
Holding(row, mode) == SelectSeq(StatedPredicates(row, mode), LAMBDA p : p.holds)
\* the clauses of h, at most the first four, joined with ' + '
StatedText(h, fallback) ==
    CASE Len(h) = 0 -> fallback
      [] Len(h) = 1 -> h[1].clause
      [] Len(h) = 2 -> h[1].clause \o " + " \o h[2].clause
      [] Len(h) = 3 -> h[1].clause \o " + " \o h[2].clause \o " + " \o h[3].clause
      [] OTHER -> h[1].clause \o " + " \o h[2].clause \o " + " \o h[3].clause
                  \o " + " \o h[4].clause

ExampleRow ==
    Series(<<"call_duration", "tower_switch_rate", "repeated_short_calls_last_1h",
             "distinct_callees_last_24h">>,
           <<Num(2000), Num(950), Num(5000), Num(70000)>>)
ExampleText ==
    "Very short call duration pattern + High tower switching frequency detected"
    \o " + Repeated short-duration calls within an hour"
    \o " + Abnormally high number of distinct callees"

\* C10: generate_reason returns the clauses of the predicates that hold, in
\* declared order, at most the first four, joined with ' + ', and the domain's
\* fallback clause when none holds; the CDR example row gives its four
\* clauses in order.
C10_ReasonIsFirstFourHolding ==
    ReasonReturned =>
        /\ ret.value = StatedText(Holding(args.row, args.mode), StatedFallback(args.mode))
        /\ (args.row = ExampleRow /\ args.mode = "cdr") => ret.value = ExampleText

\* the example row: five predicates hold, the fifth clause is cut
C10_Witness ==
    /\ ReasonReturned
    /\ args.row = ExampleRow
    /\ args.mode = "cdr"
    /\ Len(Holding(args.row, args.mode)) = 5
    /\ ret.value = ExampleText

(***************************************************************************)
(* Reconstruction applied to its own output                                *)
(***************************************************************************)
\* the caller presents the table a reconstructor returned as a fresh raw
\* table to the same reconstructor
Resubmit ==
    /\ pc = "returned"
    /\ op \in {"prepare_upi_features", "prepare_cdr_features"}
    /\ ret.status = "ok"
    /\ args.pass = 1
    /\ args' = [df |-> ret.value, pass |-> 2]
    /\ ret' = Pending
    /\ pc' = "called"
    /\ UNCHANGED <<op, thresholdFile, disk, loaded>>

InitTwice ==
    /\ pc = "called"
    /\ \/ op = "prepare_upi_features" /\ args \in [df : UpiTables, pass : {1}]
       \/ op = "prepare_cdr_features" /\ args \in [df : CdrTables, pass : {1}]
    /\ disk \in SchemaDisks
    /\ ret = Pending
    /\ thresholdFile = NoRecord
    /\ loaded = {}

NextTwice == PrepareUpiFeatures \/ PrepareCdrFeatures \/ Resubmit
SpecTwice == InitTwice /\ [][NextTwice]_vars

\* C11: a reconstructor applied to its own output R(T) returns a table with
\* the columns of R(T) in the same order, and for UPI with the values of
\* R(T) as well.
C11_ReconstructionIsIdempotent ==
    (/\ pc = "returned"
     /\ op \in {"prepare_upi_features", "prepare_cdr_features"}
     /\ args.pass = 2) =>
        /\ ret.status = "ok"
        /\ ret.value.cols = args.df.cols
        /\ op = "prepare_upi_features" => ret.value.rows = args.df.rows

(***************************************************************************)
(* Pipeline: streamlit_app.py lines 54-72.  The script calls the           *)
(* reconstructor, the loader and the scorer (the actions above), the       *)
(* bucketer and the reason generator; an exception in any call ends the    *)
(* script run, nothing catches it.                                         *)
(***************************************************************************)
\* the call in progress was made by the pipeline script
InFlow == "df_raw" \in DOMAIN args

\* what joblib.load / load_model return for the files of the deployment:
\* stand-in classifiers and scalers
Content(path) ==
    CASE path = AbsPath("models/upi/xgb.pkl") -> Classifier(1, 5 * Milli, 0, Micro)
      [] path = AbsPath("models/upi/rf.pkl") -> Classifier(1, 60 * Milli, 200000, 900000)
      [] path = AbsPath("models/upi/lr_meta.pkl") -> Classifier(1, 0, 100000, 500000)
      [] path = AbsPath("models/upi/scaler_lr.pkl") -> [shift |-> 5 * Milli]
      [] path = AbsPath("models/cdr/xgb.pkl") -> Classifier(1, 5 * Milli, 800000, 200000)
      [] path = AbsPath("models/cdr/rf.pkl") -> Classifier(6, 600, 0, Micro)
      [] path = AbsPath("models/cdr/lr_meta.pkl") -> Classifier(1, 60 * Milli, 500000, 500010)
      [] path = AbsPath("models/cdr/scalers.pkl") -> [shift |-> 0]
      [] OTHER -> [file |-> path]
Deserialised(bundle) == [r \in DOMAIN bundle |-> Content(bundle[r].from)]

\* line 63: models = load_models(mode_key), df holding the features
FlowLoadModels ==
    /\ pc = "returned"
    /\ op \in {"prepare_upi_features", "prepare_cdr_features"}
    /\ InFlow
    /\ ret.status = "ok"
    /\ op' = "load_models"
    /\ args' = [df_raw |-> args.df_raw, mode |-> args.mode, features |-> ret.value]
    /\ ret' = Pending
    /\ pc' = "called"
    /\ UNCHANGED <<thresholdFile, disk, loaded>>

\* line 67: predict_supervised(models, df_raw, mode=mode_key, normalize=True)
FlowScore ==
    /\ pc = "returned"
    /\ op = "load_models"
    /\ InFlow
    /\ ret.status = "ok"
    /\ op' = "predict_supervised"
    /\ args' = [models |-> Deserialised(ret.value), df |-> args.df_raw,
                mode |-> args.mode, normalize |-> TRUE,
                df_raw |-> args.df_raw, features |-> args.features]
    /\ ret' = Pending
    /\ pc' = "called"
    /\ UNCHANGED <<thresholdFile, disk, loaded>>

\* lines 67-68: df["p_final"] = ...; apply_risk_buckets(df["p_final"], mode_key)
FlowBucket ==
    /\ pc = "returned"
    /\ op = "predict_supervised"
    /\ InFlow
    /\ ret.status = "ok"
    /\ op' = "apply_risk_buckets"
    /\ args' = [probabilities |-> ret.value, mode |-> args.mode,
                df_raw |-> args.df_raw, features |-> args.features]
    /\ IF Thresholds(args.mode).known
       THEN /\ ret' = Ok(risk_buckets(ret.value, args.mode))
            /\ thresholdFile' = DumpThresholds(thresholdFile, args.mode)
       ELSE /\ ret' = Raise("ValueError", <<args.mode>>)
            /\ UNCHANGED thresholdFile
    /\ pc' = "returned"
    /\ UNCHANGED <<disk, loaded>>

ProbCell(p) == [k |-> "prob", v |-> p.n, d |-> p.d, s |-> ""]
\* a plausible slip: the reasons are taken from the uploaded table
ReasonFrameRaw(features, df_raw) == df_raw
\* the frame df.apply runs over: df, the reconstructed features
ReasonFrame(features, df_raw) == features
\* row r of the frame with its p_final and risk_bucket
ScoredRow(frame, p, buckets, r) ==
    Series(frame.cols \o <<"p_final", "risk_bucket">>,
           frame.rows[r] \o <<ProbCell(p[r]), Txt(buckets[r])>>)
Reasons(frame, p, buckets, mode) ==
    [r \in 1..NRows(frame) |-> generate_reason(ScoredRow(frame, p, buckets, r), mode)]
Explained(features, p, buckets, reasons) ==
    IF \E r \in 1..Len(reasons) : reasons[r].status = "raise"
    THEN reasons[CHOOSE r \in 1..Len(reasons) : reasons[r].status = "raise"]
    ELSE Ok([df |-> features, p_final |-> p, risk_bucket |-> buckets,
             reason |-> [r \in 1..Len(reasons) |-> reasons[r].value]])

\* lines 68-72: df["risk_bucket"] = ...; df["reason"] = df.apply(...)
FlowExplain ==
    /\ pc = "returned"
    /\ op = "apply_risk_buckets"
    /\ InFlow
    /\ ret.status = "ok"
    /\ op' = "generate_reason"
    /\ args' = [mode |-> args.mode, df_raw |-> args.df_raw, features |-> args.features]
    /\ ret' = Explained(args.features, args.probabilities, ret.value,
                        Reasons(ReasonFrame(args.features, args.df_raw),
                                args.probabilities, ret.value, args.mode))
    /\ pc' = "returned"
    /\ UNCHANGED <<thresholdFile, disk, loaded>>

\* the deployment: both configuration files and every artifact in place
FullDisk ==
    [exists |-> {FeatureOrderPath, ModelPathsConfig} \cup FilesOf(UpiPaths) \cup FilesOf(CdrPaths),
     model_paths |-> [upi |-> UpiPaths, cdr |-> CdrPaths],
     feature_order |-> FeatureOrderA]
Without(dsk, files) == [dsk EXCEPT !.exists = @ \ files]
\* the deployment, and the deployment with the schema file, the mapping
\* file, two artifacts or the mapping's entries gone
FlowDisks ==
    {FullDisk,
     [Without(FullDisk, {FeatureOrderPath}) EXCEPT !.feature_order = <<>>],
     [Without(FullDisk, {ModelPathsConfig}) EXCEPT !.model_paths = <<>>],
     Without(FullDisk, {AbsPath("models/upi/rf.pkl"), AbsPath("models/cdr/ae.h5")}),
     [FullDisk EXCEPT !.model_paths = [cdr |-> CdrPathsNoMeta]]}

FlowUpiCols == <<"amount", "oldbalanceOrg", "type", "sender_tx_count">>
FlowCdrCols == <<"call_duration", "tower_switch_rate", "call_type", "is_international">>
\* every table of at most MaxFlowCells cells over the universe, each label once
FlowTables(universe) ==
    UNION {UNION {{Table(cols, rows) : rows \in [1..n -> RowsOver([j \in 1..Len(cols) |-> RawCells(cols[j])], 1)]} :
                    n \in {m \in 0..MaxFlowCells : m * Len(cols) <= MaxFlowCells
                                                   /\ (Len(cols) = 0 => m = 0)}} :
             cols \in ColumnChoices(universe, MaxFlowCells)}

\* an upload and a mode choice start the script (lines 49-59)
InitPipeline ==
    /\ pc = "called"
    /\ \/ /\ op = "prepare_upi_features"
          /\ \E T \in FlowTables(FlowUpiCols) : args = [df |-> T, df_raw |-> T, mode |-> "upi"]
       \/ /\ op = "prepare_cdr_features"
          /\ \E T \in FlowTables(FlowCdrCols) : args = [df |-> T, df_raw |-> T, mode |-> "cdr"]
    /\ disk \in FlowDisks
    /\ ret = Pending
    /\ thresholdFile = NoRecord
    /\ loaded = {}

\* the scorer called on its own, with or without the schema file
InitScoreCall ==
    /\ pc = "called"
    /\ op = "predict_supervised"
    /\ args \in [models : StubBundles, df : ScoreTables, mode : {"upi", "cdr"},
                 normalize : BOOLEAN]
    /\ disk \in SchemaDisks
    /\ ret = Pending
    /\ thresholdFile = NoRecord
    /\ loaded = {}

InitFlow == InitPipeline \/ InitScoreCall
NextFlow ==
    \/ PrepareUpiFeatures \/ PrepareCdrFeatures \/ FlowLoadModels
    \/ LoadModelsConfig \/ LoadModelsValidate \/ LoadModelsArtifact \/ LoadModelsReturn
    \/ FlowScore \/ PredictSupervised \/ FlowBucket \/ FlowExplain
SpecFlow == InitFlow /\ [][NextFlow]_vars

(***************************************************************************)
(* Claims about the pipeline                                               *)
(***************************************************************************)
SchemaAbsent == "app/config/feature_order.yaml" \notin disk.exists
\* the deployment lacks something the run of this mode needs: the schema
\* file (UPI), the mapping file, the mode's entry or a role's key in it, or
\* a file the entry names
MappingBroken ==
    \/ "app/config/model_paths.yaml" \notin disk.exists
    \/ args.mode \notin DOMAIN disk.model_paths
    \/ \E k \in {"xgb", "rf", "lr_meta", "iso", "ae", "scaler_lr", "scaler_iso", "scaler_ae"} :
          \A i \in 1..Len(disk.model_paths[args.mode]) : disk.model_paths[args.mode][i].key # k
ArtifactAbsent ==
    /\ ~MappingBroken
    /\ \E i \in 1..Len(disk.model_paths[args.mode]) :
          ("/project/" \o disk.model_paths[args.mode][i].path) \notin disk.exists
DeploymentBroken == (args.mode = "upi" /\ SchemaAbsent) \/ MappingBroken \/ ArtifactAbsent

\* the flow stopped before the bucketer: no labels, no reasons, no write
StoppedBeforeBuckets ==
    /\ op \in {"prepare_upi_features", "prepare_cdr_features", "load_models"}
    /\ thresholdFile = NoRecord

AbortsOnBrokenDeployment ==
    /\ (pc = "returned" /\ op = "predict_supervised" /\ args.mode = "upi" /\ SchemaAbsent) =>
          ret.status = "raise"
    /\ (pc = "returned" /\ op = "prepare_cdr_features") => ret.status = "ok"
    /\ (InFlow /\ DeploymentBroken) => StoppedBeforeBuckets

\* C12: with the schema file absent prepare_upi_features fails with a
\* configuration error for every input and predict_supervised (UPI) returns
\* no probabilities; prepare_cdr_features never fails for it; in the flow a
\* schema, mapping or artifact error stops the run before the bucketer, so
\* no labels, no reasons and no threshold write are produced.
C12_ConfigErrorsAbortTheBatch ==
    /\ (pc = "returned" /\ op = "prepare_upi_features" /\ SchemaAbsent) =>
          ret.status = "raise" /\ ret.error = "FileNotFoundError"
    /\ AbortsOnBrokenDeployment

FlowExplained == pc = "returned" /\ op = "generate_reason" /\ InFlow /\ ret.status = "ok"

\* the CDR clauses other than 'International call detected', in declared order
OtherCdrClauses ==
    <<"Very short call duration pattern", "High tower switching frequency detected",
      "Repeated short-duration calls within an hour",
      "Abnormally high number of distinct callees", "High call cost relative to duration",
      "Extreme cell tower switching, potential SIM-box activity">>
\* the texts made of one to four of them, and the fallback
AllowedCdrTexts ==
    {StatedText([j \in 1..Cardinality(S) |-> [clause |-> OtherCdrClauses[Ascending(S)[j]]]],
                "Normal call pattern detected") :
        S \in {T \in SUBSET (1..Len(OtherCdrClauses)) : Cardinality(T) <= 4}}

\* C13: in the CDR flow the reasons are made from the reconstructed feature
\* rows (the 11 canonical features, no field is_international), so no reason
\* contains 'International call detected': every reason is made of the six
\* other CDR clauses or is the fallback.
C13_NoInternationalClause ==
    (FlowExplained /\ args.mode = "cdr") =>
        /\ ret.value.df.cols = StatedCdrSchema
        /\ \A i \in 1..Len(ret.value.df.cols) : ret.value.df.cols[i] # "is_international"
        /\ Len(ret.value.reason) = NRows(args.df_raw)
        /\ \A r \in 1..Len(ret.value.reason) : ret.value.reason[r] \in AllowedCdrTexts

\* an international call flagged as such in the upload
C13_Witness ==
    /\ FlowExplained
    /\ args.mode = "cdr"
    /\ args.df_raw = Table(<<"call_type", "is_international">>, <<<<Txt("INTERNATIONAL"), One>>>>)
    /\ ret.value.df.rows[1][9] = One
    /\ ret.value.reason = <<"Very short call duration pattern">>

=============================================================================
